---- MODULE Spec2Model ----
(***************************************************************************)
(* Media Centre Allocation Merger (src/frontend/streamlit_app.py).         *)
(*                                                                         *)
(* One run of the script: the uploaded exports are extracted one by one,   *)
(* item columns already seen are discarded, the filtered row tables are    *)
(* merged per store, and the summary rows of the workbook are derived.     *)
(*                                                                         *)
(* Texts are sequences of tokens (a token is a word or one blank " "), so  *)
(* that stripping and lower-casing are computed and not assumed.  A cell   *)
(* of a sheet is a number, a text or empty (pandas reads an empty cell as  *)
(* NaN).  A DataFrame is a sequence of column names and a sequence of      *)
(* rows, each row a function from column name to cell.                     *)
(*                                                                         *)
(* Modelled exports: every header cell is a text, the ten key columns      *)
(* other than the store number carry their exact names, header names are   *)
(* distinct within one export after stripping, numbers are integers, and   *)
(* overage cells are numbers or empty.                                     *)
(***************************************************************************)
EXTENDS Integers, Sequences, FiniteSets, TLC

\* ------------------------------------------------------------------ bounds
\* Largest number of exports in one upload.
MaxFiles == 2
\* Largest number of data rows in one upload, all exports together.
MaxRows == 2

\* ------------------------------------------------------------------- cells
NA == [k |-> "na", n |-> 0, s |-> <<>>]
Num(i) == [k |-> "num", n |-> i, s |-> <<>>]
Text(t) == [k |-> "text", n |-> 0, s |-> t]

None == <<>>
Some(x) == <<x>>

Range(q) == {q[i] : i \in DOMAIN q}

FirstIndex(q, x) ==
  CHOOSE i \in 1..Len(q) : q[i] = x /\ \A j \in 1..(i - 1) : q[j] # x

RECURSIVE SumSeq(_)
SumSeq(q) == IF q = <<>> THEN 0 ELSE Head(q) + SumSeq(Tail(q))

\* ------------------------------------------------------------- constants
KEY_COLS ==
  << <<"Store Number">>, <<"Store Name">>, <<"Address Line 1">>,
     <<"Address Line 2">>, <<"City or Town">>, <<"County">>, <<"Country">>,
     <<"Post Code">>, <<"Region / Area">>, <<"Location Type">>,
     <<"Trading Format">> >>

LABELS ==
  <<"Brief Description", "Total (inc Overs)", "Total Allocations", "Overs">>

StoreNumber == <<"Store Number">>

KeyColSet == Range(KEY_COLS)

IsKeyCol(c) == c \in KeyColSet

\* ------------------------------------------------------- text operations
\* str.strip(): leading and trailing blanks removed.
RECURSIVE LStrip(_)
LStrip(t) == IF t # <<>> /\ Head(t) = " " THEN LStrip(Tail(t)) ELSE t

RECURSIVE RStrip(_)
RStrip(t) ==
  IF t # <<>> /\ t[Len(t)] = " " THEN RStrip(SubSeq(t, 1, Len(t) - 1)) ELSE t

Strip(t) == RStrip(LStrip(t))

\* str.lower() on the words that occur in headers.
LowerTok(w) ==
  CASE w = "Store Number" -> "store number"
    [] w = "STORE NUMBER" -> "store number"
    [] w = "Shop" -> "shop"
    [] w = "A" -> "a"
    [] w = "B" -> "b"
    [] OTHER -> w

Lower(t) == [i \in 1..Len(t) |-> LowerTok(t[i])]

\* pd.to_numeric(errors="coerce"): a number stays, anything else is null.
ToNumeric(c) == IF c.k = "num" THEN c ELSE NA

\* Name pandas gives the column at 0-based position i with header cell c.
Unnamed(i) ==
  CASE i = 0 -> "Unnamed: 0" [] i = 1 -> "Unnamed: 1" [] i = 2 -> "Unnamed: 2"
    [] i = 3 -> "Unnamed: 3" [] i = 4 -> "Unnamed: 4" [] i = 5 -> "Unnamed: 5"
    [] i = 6 -> "Unnamed: 6" [] i = 7 -> "Unnamed: 7" [] i = 8 -> "Unnamed: 8"
    [] i = 9 -> "Unnamed: 9" [] i = 10 -> "Unnamed: 10"
    [] i = 11 -> "Unnamed: 11" [] i = 12 -> "Unnamed: 12"
    [] i = 13 -> "Unnamed: 13"

ColumnName(c, i) ==
  CASE c.k = "text" -> c.s
    [] c.k = "na" -> <<Unnamed(i)>>

\* str(cell) of a header cell read without a header row.
Str(c) ==
  CASE c.k = "text" -> c.s
    [] c.k = "na" -> <<"nan">>

\* ------------------------------------------------------- extract_alloc
\* df.columns after line 42.
StrippedColumns(file) ==
  [i \in 1..Len(file.hdr) |-> Strip(ColumnName(file.hdr[i], i - 1))]

\* Positions of the columns line 43 accepts.
StoreCols(file) ==
  LET columns == StrippedColumns(file) IN
  {i \in 1..Len(columns) : Lower(Strip(columns[i])) = <<"store number">>}

HasStoreCol(file) == StoreCols(file) # {}

store_col(file) ==
  LET found == StoreCols(file) IN CHOOSE i \in found : \A j \in found : i <= j

\* df.columns after the rename of line 48.
Columns(file) ==
  LET columns == StrippedColumns(file)
      sc == store_col(file)
  IN [i \in 1..Len(columns) |-> IF i = sc THEN StoreNumber ELSE columns[i]]

\* The row table of lines 38-49.
ExtractDf(file) ==
  LET cols == Columns(file)
      names == Range(cols)
      pos == [c \in names |-> FirstIndex(cols, c)]
  IN [cols |-> cols,
      rows |-> [r \in 1..Len(file.data) |->
                  [c \in names |->
                     IF c = StoreNumber THEN ToNumeric(file.data[r][pos[c]])
                     ELSE file.data[r][pos[c]]]]]

\* Positions beyond the key span whose reference is not "nan" (53-56).
MetaPositions(file) ==
  {i \in (Len(KEY_COLS) + 1)..Len(file.hdr) : Str(file.hdr[i]) # <<"nan">>}

\* The metadata map of lines 51-60; a later column overwrites an earlier
\* one with the same reference.
ExtractMeta(file) ==
  LET at == MetaPositions(file) IN
  [ref \in {Str(file.hdr[i]) : i \in at} |->
     LET i == CHOOSE p \in at :
                /\ Str(file.hdr[p]) = ref
                /\ \A q \in at : Str(file.hdr[q]) = ref => q <= p
     IN [brief_description |-> file.brief[i],
         overs |-> IF file.overs[i].k = "na" THEN Num(0) ELSE file.overs[i]]]

extract_alloc(file) == [df |-> ExtractDf(file), meta |-> ExtractMeta(file)]

\* ----------------------------------------------------------- merge loop
ItemCols(df) == SelectSeq(df.cols, LAMBDA c : ~IsKeyCol(c))

\* seen_refs after the inner loop (169-174) has walked cols.
RECURSIVE SeenAfter(_, _)
SeenAfter(cols, seen) ==
  IF cols = <<>> THEN seen ELSE SeenAfter(Tail(cols), seen \cup {Head(cols)})

\* Variant: no reference is ever treated as seen, every column is kept.
NewColsKeepAll(cols, seen) == cols

\* new_cols of the inner loop (169-174).
RECURSIVE NewCols(_, _)
NewCols(cols, seen) ==
  IF cols = <<>> THEN <<>>
  ELSE IF Head(cols) \in seen
       THEN NewCols(Tail(cols), seen)
       ELSE <<Head(cols)>> \o NewCols(Tail(cols), seen \cup {Head(cols)})

\* Variant: discarded references are not recorded.
DupColsUnrecorded(cols, seen) == <<>>

\* References the inner loop appends to duplicates (169-171).
RECURSIVE DupCols(_, _)
DupCols(cols, seen) ==
  IF cols = <<>> THEN <<>>
  ELSE IF Head(cols) \in seen
       THEN <<Head(cols)>> \o DupCols(Tail(cols), seen)
       ELSE DupCols(Tail(cols), seen \cup {Head(cols)})

\* df[cols] (line 175).
SelectColumns(df, cols) ==
  LET names == Range(cols) IN
  [cols |-> cols,
   rows |-> [r \in 1..Len(df.rows) |-> [c \in names |-> df.rows[r][c]]]]

\* Dict comprehension of line 176.
FilterMeta(m, cols) == [k \in {x \in DOMAIN m : x \in Range(cols)} |-> m[k]]

\* meta.setdefault(k, {}).update(v) for every entry of part (178-179).
UpdateMeta(m, part) ==
  [k \in DOMAIN m \cup DOMAIN part |->
     IF k \in DOMAIN part THEN part[k] ELSE m[k]]

\* ----------------------------------------------------- merge_allocations
\* Columns of pd.concat(dfs, sort=False): in order of first appearance.
RECURSIVE UnionCols(_, _)
UnionCols(dfs, acc) ==
  IF dfs = <<>> THEN acc
  ELSE UnionCols(Tail(dfs),
                 acc \o SelectSeq(Head(dfs).cols, LAMBDA c : c \notin Range(acc)))

\* Rows of pd.concat(dfs, ignore_index=True): a column a table lacks is null.
RECURSIVE ConcatRows(_, _)
ConcatRows(dfs, cols) ==
  IF dfs = <<>> THEN <<>>
  ELSE LET d == Head(dfs)
           own == Range(d.cols)
           names == Range(cols)
       IN [r \in 1..Len(d.rows) |->
             [c \in names |-> IF c \in own THEN d.rows[r][c] ELSE NA]]
          \o ConcatRows(Tail(dfs), cols)

Concat(dfs) ==
  LET cols == UnionCols(dfs, <<>>) IN
  [cols |-> cols, rows |-> ConcatRows(dfs, cols)]

\* Lines 68-69: every column outside KEY_COLS is coerced to numeric.
CoerceNumCols(df) ==
  LET names == Range(df.cols) IN
  [cols |-> df.cols,
   rows |-> [r \in 1..Len(df.rows) |->
               [c \in names |->
                  IF IsKeyCol(c) THEN df.rows[r][c]
                  ELSE ToNumeric(df.rows[r][c])]]]

\* Variant: groupby(..., dropna=False), the null key forms a group.
GroupKeysKeepNull(df) == {df.rows[r][StoreNumber] : r \in 1..Len(df.rows)}

\* Keys of groupby("Store Number"): null keys are dropped (dropna=True).
GroupKeys(df) ==
  {df.rows[r][StoreNumber] : r \in 1..Len(df.rows)} \ {NA}

\* Variant: sort_values(ascending=False).
RECURSIVE SortDesc(_)
SortDesc(S) ==
  IF S = {} THEN <<>>
  ELSE LET m == CHOOSE x \in S : \A y \in S : x.n >= y.n
       IN <<m>> \o SortDesc(S \ {m})

\* Ascending order of a set of numeric cells (groupby sort, sort_values).
RECURSIVE SortAsc(_)
SortAsc(S) ==
  IF S = {} THEN <<>>
  ELSE LET m == CHOOSE x \in S : \A y \in S : x.n <= y.n
       IN <<m>> \o SortAsc(S \ {m})

GroupRows(df, key) == SelectSeq(df.rows, LAMBDA r : r[StoreNumber] = key)

\* Variant: the value of the first row of the group, null or not.
FirstRowValue(rows, c) == IF rows = <<>> THEN NA ELSE Head(rows)[c]

\* GroupBy "first": the first non-null value of the group, null if none.
RECURSIVE First(_, _)
First(rows, c) ==
  IF rows = <<>> THEN NA
  ELSE IF Head(rows)[c] # NA THEN Head(rows)[c]
       ELSE First(Tail(rows), c)

\* Variant: sum(min_count=1), an all-null group sums to null.
SumMinCount(rows, c) ==
  IF \A i \in 1..Len(rows) : rows[i][c].k # "num" THEN NA
  ELSE Num(SumSeq([i \in 1..Len(rows) |->
                     IF rows[i][c].k = "num" THEN rows[i][c].n ELSE 0]))

\* GroupBy "sum": nulls are skipped, an all-null group sums to 0.
Sum(rows, c) ==
  Num(SumSeq([i \in 1..Len(rows) |->
                IF rows[i][c].k = "num" THEN rows[i][c].n ELSE 0]))

EmptyFrame == [cols |-> <<>>, rows |-> <<>>]

merge_allocations(dfs) ==
  IF dfs = <<>> THEN EmptyFrame
  ELSE
    LET combined == CoerceNumCols(Concat(dfs))
        keys == SortAsc(GroupKeys(combined))
        cols == <<StoreNumber>>
                \o SelectSeq(combined.cols, LAMBDA c : c # StoreNumber)
        names == Range(cols)
    IN [cols |-> cols,
        rows |-> [i \in 1..Len(keys) |->
                    LET group == GroupRows(combined, keys[i]) IN
                    [c \in names |->
                       IF c = StoreNumber THEN keys[i]
                       ELSE IF IsKeyCol(c) THEN First(group, c)
                            ELSE Sum(group, c)]]]

\* -------------------------------------------------------- build_workbook
\* df[item].fillna(0).sum() (line 108).
ColumnTotal(df, item) ==
  SumSeq([r \in 1..Len(df.rows) |->
            IF df.rows[r][item].k = "num" THEN df.rows[r][item].n ELSE 0])

\* meta.get(item, {}).get("overs", 0) (lines 106-107).
OversOf(m, item) == IF item \in DOMAIN m THEN m[item].overs ELSE Num(0)

\* meta.get(item, {}).get("brief_description", "") (lines 106, 111).
BriefOf(m, item) ==
  IF item \in DOMAIN m THEN m[item].brief_description ELSE Text(<<>>)

\* Variant: the "Total (inc Overs)" row leaves the overage out.
SummaryValueNoOvers(label, item, df, m) ==
  CASE label = "Brief Description" -> BriefOf(m, item)
    [] label = "Total (inc Overs)" -> Num(ColumnTotal(df, item))
    [] label = "Total Allocations" -> Num(ColumnTotal(df, item))
    [] label = "Overs" -> OversOf(m, item)

\* The value written in the summary row label above column item (110-117).
SummaryValue(label, item, df, m) ==
  CASE label = "Brief Description" -> BriefOf(m, item)
    [] label = "Total (inc Overs)" ->
         Num(ColumnTotal(df, item) + OversOf(m, item).n)
    [] label = "Total Allocations" -> Num(ColumnTotal(df, item))
    [] label = "Overs" -> OversOf(m, item)

build_workbook(df, m) ==
  LET item_cols == ItemCols(df) IN
  [items |-> item_cols,
   summary |-> [l \in Range(LABELS) |->
                  [i \in 1..Len(item_cols) |->
                     SummaryValue(l, item_cols[i], df, m)]],
   table |-> df]

\* ---------------------------------------------------------------- inputs
\* A layout is the header region of an export: the header cell of the store
\* column and, for every item column, its header cell, its brief
\* description (sheet row 2) and its overage cell (sheet row 5).
Item(hdr, brief, overs) == [hdr |-> hdr, brief |-> brief, overs |-> overs]

LayoutA ==
  [store |-> <<"Store Number">>,
   items |-> <<Item(<<"A">>, Text(<<"brief A">>), Num(4))>>]

\* The store header in another spelling; an empty overage cell.
LayoutB ==
  [store |-> <<"store number", " ">>,
   items |-> <<Item(<<"B">>, Text(<<"brief B">>), NA)>>]

\* The item header carries a leading blank.
LayoutPadA ==
  [store |-> <<"Store Number">>,
   items |-> <<Item(<<" ", "A">>, Text(<<"brief A (padded)">>), Num(7))>>]

\* Two item columns, the second with the reference of LayoutA.
LayoutBA ==
  [store |-> <<" ", "STORE NUMBER">>,
   items |-> <<Item(<<"B">>, NA, Num(2)),
               Item(<<"A">>, Text(<<"brief A (other)">>), Num(7))>>]

\* No store-number column.
LayoutNoStore ==
  [store |-> <<"Shop">>,
   items |-> <<Item(<<"A">>, Text(<<"brief A">>), Num(4))>>]

GoodLayouts == {LayoutA, LayoutB, LayoutPadA, LayoutBA}

\* A data row: the store-number cell, the store-name cell and the cells of
\* the item columns (an export with one item column uses the first only).
Row(sn, name, q) == [sn |-> sn, name |-> name, q |-> q]

DataRows ==
  { Row(Num(1), Text(<<"n1">>), <<Num(3), Num(5)>>),
    Row(Num(1), Text(<<"n2">>), <<Num(5), NA>>),
    Row(Num(2), NA, <<NA, Num(3)>>),
    Row(Num(2), Text(<<"n2">>), <<Num(5), Text(<<"tbc">>)>>),
    Row(Text(<<"n/a">>), Text(<<"n1">>), <<Num(5), Num(3)>>) }

\* The sheet of an export: header row (sheet row 7), description row,
\* overage row and the data rows below the header, all by position.
MkFile(layout, rows) ==
  LET n == Len(layout.items)
      keyspan == [i \in 1..Len(KEY_COLS) |-> NA]
  IN [hdr |-> <<Text(layout.store)>>
              \o [i \in 1..(Len(KEY_COLS) - 1) |-> Text(KEY_COLS[i + 1])]
              \o [i \in 1..n |-> Text(layout.items[i].hdr)],
      brief |-> keyspan \o [i \in 1..n |-> layout.items[i].brief],
      overs |-> keyspan \o [i \in 1..n |-> layout.items[i].overs],
      data |-> [r \in 1..Len(rows) |->
                  <<rows[r].sn, rows[r].name>>
                  \o [i \in 1..(Len(KEY_COLS) - 2) |-> Text(<<"UK">>)]
                  \o SubSeq(rows[r].q, 1, n)]]

\* Exports with at most b data rows.
FilesUpTo(b) ==
  IF b < 1 THEN {}
  ELSE {MkFile(l, rs) :
          l \in GoodLayouts, rs \in UNION {[1..n -> DataRows] : n \in 1..b}}
       \cup {MkFile(LayoutNoStore, <<Row(Num(1), Text(<<"n1">>), <<Num(3)>>)>>)}

\* Uploads of at most k exports with at most b data rows together.
RECURSIVE Uploads(_, _)
Uploads(k, b) ==
  {<<>>} \cup
  IF k = 0 THEN {}
  ELSE UNION {{<<f>> \o rest : rest \in Uploads(k - 1, b - Len(f.data))} :
                f \in FilesUpTo(b)}

\* ----------------------------------------------------------------- state
VARIABLES
  pc,          \* position of the script
  alloc_files, \* the uploaded exports, in upload order (line 151)
  idx,         \* number of exports the merge loop has taken
  all_dfs,     \* filtered row tables (line 163)
  meta,        \* accumulated metadata map (line 163)
  seen_refs,   \* item references seen so far (line 164)
  duplicates,  \* discarded references, one per discarded column (line 164)
  master_df,   \* None, or Some(table) once merge_allocations returned
  workbook,    \* None, or Some(workbook) once build_workbook returned
  messages     \* what has been shown: info, error, warning, success, download

vars ==
  <<pc, alloc_files, idx, all_dfs, meta, seen_refs, duplicates, master_df,
    workbook, messages>>

Init ==
  /\ pc = "start"
  /\ alloc_files \in Uploads(MaxFiles, MaxRows)
  /\ idx = 0
  /\ all_dfs = <<>>
  /\ meta = <<>>
  /\ seen_refs = {}
  /\ duplicates = <<>>
  /\ master_df = None
  /\ workbook = None
  /\ messages = {}

\* Variant: the guard of lines 153-155 is missing, the script goes on.
NoFilesProceed ==
  /\ pc = "start"
  /\ alloc_files = <<>>
  /\ pc' = "loop"
  /\ UNCHANGED <<alloc_files, idx, all_dfs, meta, seen_refs, duplicates,
                 master_df, workbook, messages>>

\* Lines 153-155: nothing uploaded, the script informs and stops.
NoFiles ==
  /\ pc = "start"
  /\ alloc_files = <<>>
  /\ messages' = messages \cup {"info"}
  /\ pc' = "stopped"
  /\ UNCHANGED <<alloc_files, idx, all_dfs, meta, seen_refs, duplicates,
                 master_df, workbook>>

\* Lines 157-164: the accumulators are set up and the loop is entered.
StartMerge ==
  /\ pc = "start"
  /\ alloc_files # <<>>
  /\ all_dfs' = <<>>
  /\ meta' = <<>>
  /\ seen_refs' = {}
  /\ duplicates' = <<>>
  /\ pc' = "loop"
  /\ UNCHANGED <<alloc_files, idx, master_df, workbook, messages>>

\* Variant: the export is reported and skipped, the loop goes on.
ExtractFailSkip ==
  /\ pc = "loop"
  /\ idx < Len(alloc_files)
  /\ ~HasStoreCol(alloc_files[idx + 1])
  /\ messages' = messages \cup {"error"}
  /\ idx' = idx + 1
  /\ UNCHANGED <<pc, alloc_files, all_dfs, meta, seen_refs, duplicates,
                 master_df, workbook>>

\* Lines 166, 44-46: the next export has no store-number column.
ExtractFail ==
  /\ pc = "loop"
  /\ idx < Len(alloc_files)
  /\ ~HasStoreCol(alloc_files[idx + 1])
  /\ messages' = messages \cup {"error"}
  /\ pc' = "stopped"
  /\ UNCHANGED <<alloc_files, idx, all_dfs, meta, seen_refs, duplicates,
                 master_df, workbook>>

\* Lines 165-180: one pass of the merge loop.
ProcessFile ==
  /\ pc = "loop"
  /\ idx < Len(alloc_files)
  /\ HasStoreCol(alloc_files[idx + 1])
  /\ LET ex == extract_alloc(alloc_files[idx + 1])
         item_cols == ItemCols(ex.df)
         new_cols == NewCols(item_cols, seen_refs)
     IN /\ seen_refs' = SeenAfter(item_cols, seen_refs)
        /\ duplicates' = duplicates \o DupCols(item_cols, seen_refs)
        /\ all_dfs' = Append(all_dfs, SelectColumns(ex.df, KEY_COLS \o new_cols))
        /\ meta' = UpdateMeta(meta, FilterMeta(ex.meta, new_cols))
  /\ idx' = idx + 1
  /\ UNCHANGED <<pc, alloc_files, master_df, workbook, messages>>

\* Lines 181-188: the loop is over, duplicates are warned of, tables merged.
Merge ==
  /\ pc = "loop"
  /\ idx = Len(alloc_files)
  /\ messages' = IF duplicates # <<>> THEN messages \cup {"warning"} ELSE messages
  /\ master_df' = Some(merge_allocations(all_dfs))
  /\ pc' = "build"
  /\ UNCHANGED <<alloc_files, idx, all_dfs, meta, seen_refs, duplicates, workbook>>

\* Line 189.
BuildWorkbook ==
  /\ pc = "build"
  /\ workbook' = Some(build_workbook(master_df[1], meta))
  /\ pc' = "report"
  /\ UNCHANGED <<alloc_files, idx, all_dfs, meta, seen_refs, duplicates,
                 master_df, messages>>

\* Lines 192-201: success summary and download button.
Report ==
  /\ pc = "report"
  /\ messages' = messages \cup {"success", "download"}
  /\ pc' = "done"
  /\ UNCHANGED <<alloc_files, idx, all_dfs, meta, seen_refs, duplicates,
                 master_df, workbook>>

Next ==
  \/ NoFiles
  \/ StartMerge
  \/ ExtractFail
  \/ ProcessFile
  \/ Merge
  \/ BuildWorkbook
  \/ Report

Spec == Init /\ [][Next]_vars

\* ------------------------------------------------------------ properties
Merged == master_df # None
Master == master_df[1]
Book == workbook[1]

\* The row tables the extractor yields for the uploaded exports.
ExtractedAll == [i \in 1..Len(alloc_files) |-> ExtractDf(alloc_files[i])]

\* The item references found in the extracted tables ex.
ItemRefs(ex) == UNION {Range(ItemCols(ex[i])) : i \in DOMAIN ex}

\* The exports that carry item column c, and the first of them.
Carriers(ex, c) == {i \in DOMAIN ex : c \in Range(ex[i].cols)}

FirstCarrier(ex, c) ==
  CHOOSE i \in Carriers(ex, c) : \A j \in Carriers(ex, c) : i <= j

\* Sum of the numeric quantities of column c over the rows of store s in df.
QtyIn(df, s, c) ==
  SumSeq([r \in 1..Len(df.rows) |->
            IF df.rows[r][StoreNumber] = s /\ df.rows[r][c].k = "num"
            THEN df.rows[r][c].n ELSE 0])

\* Number of columns of df that are named c.
Occurrences(df, c) == Cardinality({p \in 1..Len(df.cols) : df.cols[p] = c})

\* C1: an item reference carried by two exports appears once in the merged
\* table, every merged value of it is the store's quantity in the first
\* export that carries it, and the reference is in the duplicate list.
C1_FirstFileWins ==
  Merged =>
    LET ex == ExtractedAll IN
    \A c \in ItemRefs(ex) :
      Cardinality(Carriers(ex, c)) >= 2 =>
        /\ Occurrences(Master, c) = 1
        /\ c \in Range(duplicates)
        /\ \A r \in 1..Len(Master.rows) :
             Master.rows[r][c] =
               Num(QtyIn(ex[FirstCarrier(ex, c)], Master.rows[r][StoreNumber], c))

\* A later export gives a store a quantity under a shared reference.
C1_Witness ==
  /\ pc = "done"
  /\ LET ex == ExtractedAll IN
     \E c \in ItemRefs(ex) : \E r \in 1..Len(Master.rows) :
       \E j \in Carriers(ex, c) \ {FirstCarrier(ex, c)} :
         QtyIn(ex[j], Master.rows[r][StoreNumber], c) > 0

\* C2: the merged table has its rows in strictly ascending store-number
\* order, hence no store number twice.
C2_SortedUnique ==
  Merged =>
    \A i, j \in 1..Len(Master.rows) :
      i < j => Master.rows[i][StoreNumber].n < Master.rows[j][StoreNumber].n

\* Two stores merged, the larger store number uploaded first.
C2_Witness ==
  /\ pc = "done"
  /\ Len(Master.rows) = 2
  /\ all_dfs[1].rows[1][StoreNumber] = Num(2)

\* C3 as stated: the merged quantity of a store and item column is the sum
\* of the store's quantities for the column over all exports that carry it.
C3_SumOverAllFiles ==
  Merged =>
    LET ex == ExtractedAll IN
    \A c \in ItemRefs(ex) : \A r \in 1..Len(Master.rows) :
      Master.rows[r][c].n =
        SumSeq([i \in 1..Len(ex) |->
                  IF i \in Carriers(ex, c)
                  THEN QtyIn(ex[i], Master.rows[r][StoreNumber], c) ELSE 0])

\* C3 amended: the merged quantity of a store and item column is the sum of
\* the store's quantities over the rows of the first export that carries
\* the column; quantities of later exports under that column are left out.
C3_SumOverFirstCarrier ==
  Merged =>
    LET ex == ExtractedAll IN
    \A c \in ItemRefs(ex) : \A r \in 1..Len(Master.rows) :
      Master.rows[r][c].n =
        QtyIn(ex[FirstCarrier(ex, c)], Master.rows[r][StoreNumber], c)

\* Store 1 has 3 in the first export and 5 in the second under the same
\* item column, and the merged row shows 3.
C3_Witness ==
  /\ pc = "done"
  /\ Len(alloc_files) = 2
  /\ LET ex == ExtractedAll IN
     \E c \in Range(ItemCols(ex[1])) \cap Range(ItemCols(ex[2])) :
       /\ QtyIn(ex[1], Num(1), c) = 3
       /\ QtyIn(ex[2], Num(1), c) = 5
       /\ \E r \in 1..Len(Master.rows) :
            Master.rows[r][StoreNumber] = Num(1) /\ Master.rows[r][c] = Num(3)

\* The extracted rows of store s, in upload order, then row order.
RECURSIVE StoreRowsFrom(_, _)
StoreRowsFrom(ex, s) ==
  IF ex = <<>> THEN <<>>
  ELSE SelectSeq(Head(ex).rows, LAMBDA row : row[StoreNumber] = s)
       \o StoreRowsFrom(Tail(ex), s)

DescriptiveCols == KeyColSet \ {StoreNumber}

\* C4 as stated: every descriptive key attribute of a merged store is the
\* value in the first row of the store, whatever later rows contain.
C4_FirstRowWins ==
  Merged =>
    LET ex == ExtractedAll IN
    \A r \in 1..Len(Master.rows) : \A c \in DescriptiveCols :
      Master.rows[r][c] = StoreRowsFrom(ex, Master.rows[r][StoreNumber])[1][c]

\* C4 amended: every descriptive key attribute of a merged store is the
\* first non-null value among the store's rows in upload order, then row
\* order, and null only when every row of the store has it null.
C4_FirstNonNullWins ==
  Merged =>
    LET ex == ExtractedAll IN
    \A r \in 1..Len(Master.rows) : \A c \in DescriptiveCols :
      LET rows == StoreRowsFrom(ex, Master.rows[r][StoreNumber])
          filled == {i \in 1..Len(rows) : rows[i][c] # NA}
      IN IF filled = {} THEN Master.rows[r][c] = NA
         ELSE \E i \in filled :
                /\ \A j \in filled : i <= j
                /\ Master.rows[r][c] = rows[i][c]

\* The first row of a store has no name, a later row has one, and the
\* merged row carries that name.
C4_Witness ==
  /\ pc = "done"
  /\ LET ex == ExtractedAll IN
     \E r \in 1..Len(Master.rows) :
       LET rows == StoreRowsFrom(ex, Master.rows[r][StoreNumber]) IN
       /\ Len(rows) >= 2
       /\ rows[1][<<"Store Name">>] = NA
       /\ Master.rows[r][<<"Store Name">>] # NA

\* An export in which no header cell reads "store number" once trimmed and
\* lower-cased.
LacksStoreNumber(file) ==
  \A i \in 1..Len(file.hdr) :
    file.hdr[i].k = "text" => Lower(Strip(file.hdr[i].s)) # <<"store number">>

\* C5: when some uploaded export, at any position, lacks the store-number
\* column, no merged table and no workbook is built, no success summary or
\* download is offered, and the run ends stopped on a reported error.
C5_FatalStopsRun ==
  (\E i \in 1..Len(alloc_files) : LacksStoreNumber(alloc_files[i])) =>
    /\ master_df = None
    /\ workbook = None
    /\ "success" \notin messages
    /\ "download" \notin messages
    /\ pc # "done"
    /\ pc = "stopped" => "error" \in messages

\* The run stopped on the error after an earlier export was extracted.
C5_Witness ==
  /\ pc = "stopped"
  /\ "error" \in messages
  /\ idx >= 1
  /\ Len(all_dfs) >= 1

\* C6 as stated: with no export uploaded the run ends with an empty merged
\* table and a workbook.
C6_EmptyUploadProceeds ==
  (alloc_files = <<>> /\ pc \in {"stopped", "done"}) =>
    /\ master_df = Some(EmptyFrame)
    /\ workbook # None

\* C6 amended: with no export uploaded nothing is reported as an error, but
\* the run stops on an informational message before merging: no merged
\* table and no workbook is produced.
C6_EmptyUploadStops ==
  alloc_files = <<>> =>
    /\ "error" \notin messages
    /\ master_df = None
    /\ workbook = None
    /\ pc \in {"start", "stopped"}
    /\ pc = "stopped" => messages = {"info"}

\* The run with no export has stopped.
C6_Witness == alloc_files = <<>> /\ pc = "stopped"

\* C7: in the workbook, for every item column, "Total (inc Overs)" is
\* "Total Allocations" plus "Overs", and "Total Allocations" is the sum of
\* the column over the rows of the merged table, nulls counted as 0.
C7_TotalsAddUp ==
  workbook # None =>
    \A i \in 1..Len(Book.items) :
      /\ Book.summary["Total (inc Overs)"][i].n =
           Book.summary["Total Allocations"][i].n + Book.summary["Overs"][i].n
      /\ Book.summary["Total Allocations"][i] =
           Num(SumSeq([r \in 1..Len(Master.rows) |->
                         IF Master.rows[r][Book.items[i]] = NA THEN 0
                         ELSE Master.rows[r][Book.items[i]].n]))

\* A column with a positive total over two stores and a positive overage.
C7_Witness ==
  /\ workbook # None
  /\ Len(Master.rows) = 2
  /\ \E i \in 1..Len(Book.items) :
       /\ Book.summary["Overs"][i].n > 0
       /\ Book.summary["Total Allocations"][i].n > 0
       /\ \A r \in 1..2 : Master.rows[r][Book.items[i]].n > 0

\* The overage the export declares for its column named c (0 when empty).
DeclaredOvers(file, c) ==
  LET v == file.overs[FirstIndex(Columns(file), c)] IN
  IF v = NA THEN Num(0) ELSE v

\* C8: every item column of the merged table has an entry in the metadata
\* map, and its "Overs" value is the overage declared for it in the export
\* that contributed the column.
C8_MetaForEveryColumn ==
  workbook # None =>
    LET ex == ExtractedAll IN
    \A i \in 1..Len(Book.items) :
      LET c == Book.items[i] IN
      /\ c \in DOMAIN meta
      /\ Book.summary["Overs"][i] =
           DeclaredOvers(alloc_files[FirstCarrier(ex, c)], c)

\* The store-number cells of the uploaded data rows.
StoreCells ==
  UNION {{alloc_files[i].data[r][store_col(alloc_files[i])] :
            r \in 1..Len(alloc_files[i].data)} : i \in 1..Len(alloc_files)}

NonNumericStore == \E v \in StoreCells : v.k # "num"

\* C9 as stated: a data row with a non-numeric store number is kept by the
\* aggregation and appears in the merged table under a null store number.
C9_NullStoreRetained ==
  (Merged /\ NonNumericStore) =>
    \E r \in 1..Len(Master.rows) : Master.rows[r][StoreNumber] = NA

\* C9 amended: a data row with a non-numeric store number does not abort
\* the run, and the grouping drops it: the merged table has exactly one row
\* for every numeric store number of the upload and none under null.
C9_NullStoreDropped ==
  ((\A i \in 1..Len(alloc_files) : ~LacksStoreNumber(alloc_files[i]))
     /\ NonNumericStore) =>
    /\ "error" \notin messages
    /\ pc # "stopped"
    /\ Merged =>
         /\ \A r \in 1..Len(Master.rows) : Master.rows[r][StoreNumber] # NA
         /\ {Master.rows[r][StoreNumber] : r \in 1..Len(Master.rows)} =
              {v \in StoreCells : v.k = "num"}
         /\ Len(Master.rows) = Cardinality({v \in StoreCells : v.k = "num"})

\* A run with a non-numeric store number has completed.
C9_Witness == pc = "done" /\ NonNumericStore

\* Sum of the numeric values of column c over the rows of store s in the
\* filtered row tables; a table without the column contributes nothing.
RECURSIVE FilteredQty(_, _, _)
FilteredQty(dfs, s, c) ==
  IF dfs = <<>> THEN 0
  ELSE (IF c \in Range(Head(dfs).cols) THEN QtyIn(Head(dfs), s, c) ELSE 0)
       + FilteredQty(Tail(dfs), s, c)

\* C10: every item value of the merged table is a number, the sum of the
\* non-null quantities of the column over the store's filtered input rows,
\* and so 0 when no row of the store has a value for the column.
C10_SumNeverNull ==
  Merged =>
    \A r \in 1..Len(Master.rows) : \A c \in Range(ItemCols(Master)) :
      /\ Master.rows[r][c].k = "num"
      /\ Master.rows[r][c].n = FilteredQty(all_dfs, Master.rows[r][StoreNumber], c)

\* A merged store shows 0 under a column that none of the tables holding
\* the store carries.
C10_Witness ==
  /\ pc = "done"
  /\ \E r \in 1..Len(Master.rows) : \E c \in Range(ItemCols(Master)) :
       /\ Master.rows[r][c] = Num(0)
       /\ \A d \in 1..Len(all_dfs) :
            (\E q \in 1..Len(all_dfs[d].rows) :
               all_dfs[d].rows[q][StoreNumber] = Master.rows[r][StoreNumber])
            => c \notin Range(all_dfs[d].cols)

====
